---- MODULE Spec2Model ----
(***************************************************************************)
(* Model of download_pdfs.py: the stateful, concurrent, multi-source       *)
(* acquisition pipeline (ledger load/flush, per-item orchestration in      *)
(* download_file, the Sci-Hub mirror client, the thread pool of main).     *)
(***************************************************************************)
EXTENDS Integers, Sequences, FiniteSets, TLC

\* ---- bounds of the model -------------------------------------------------
MaxItems == 2      \* longest input list
MaxWorkers == 2    \* --max-concurrent
MaxDomains == 1    \* longest configured SCIHUB_DOMAINS list
MaxRuns == 2       \* process runs in SpecRuns
MaxMirrorDomains == 2   \* endpoints of a direct call of download_from_scihub
MaxScriptTags == 2      \* script tags with text on one result page

\* ---- program constants ---------------------------------------------------
MIN_PDF_SIZE == 10240
MinPageText == 100
MaxPagesChecked == 3

None == "<None>"

Workers == 1..MaxWorkers

\* A token of a URL and its image under str.lower().
Lower(tok) ==
  CASE tok = "Render" -> "render"
    [] tok = ".PDF" -> ".pdf"
    [] OTHER -> tok

\* url.lower().endswith('.pdf')
EndsWithPdf(url) == Len(url) > 0 /\ Lower(url[Len(url)]) = ".pdf"

\* 'render' in url.lower() or 'printable' in url.lower()
HasRenderMarker(url) ==
  \E i \in 1..Len(url) : Lower(url[i]) \in {"render", "printable"}

\* Python truthiness of the doi local (None and '' are falsy).
Truthy(d) == d /= None /\ d /= ""

\* An input line: the '|'-separated fields before the URL, and the URL.
\* A bare URL line has no metadata fields.
Line(meta, url) == [meta |-> meta, url |-> url]

LineList ==
  << Line(<<>>, <<"h1", ".pdf">>),
     Line(<<"p1", "d1", "a", "t", "pdf">>, <<"h1">>),
     Line(<<"p2", "d1">>, <<"h2">>),
     Line(<<"p3", "d1", "a", "t", "pdf">>, <<"h3", ".pdf">>),
     Line(<<"p4", "d1", "a", "t", "pdf">>, <<"h4", ".PDF">>),
     Line(<<"p5", "", "a", "t", "pdf">>, <<"h5", "Render">>),
     Line(<<"p6", "d2", "a", "t", "pdf">>, <<"printable", "h6">>),
     Line(<<"p7", "d2", "a", "t", "pdf", "x">>, <<"h7", ".pdf">>) >>

LINES == { LineList[n] : n \in 1..Len(LineList) }

DOIS == {"d1", "d2"}

\* download_file, lines 561-569: the doi taken from the metadata fields.
\* (Six or more fields make the tuple unpacking raise; see UnpackRaises.)
ParseDoi(meta) ==
  IF Len(meta) >= 2 THEN meta[2] ELSE None

UnpackRaises(meta) == Len(meta) >= 6

\* Mutant of MirrorFirst: the test for a .pdf URL is forgotten.
MirrorFirstIgnoresPdf(doi, url) == Truthy(doi) /\ ~HasRenderMarker(url)

\* download_file, line 573: route the item straight to the mirror.
MirrorFirst(doi, url) ==
  Truthy(doi) /\ ~EndsWithPdf(url) /\ ~HasRenderMarker(url)

\* ---- content validation ---------------------------------------------------
\* A downloaded file: its size in bytes, whether PyPDF2 can parse it, and the
\* length of the text extracted from each page.
File(size, parses, pages) == [size |-> size, parses |-> parses, pages |-> pages]

FILES ==
  { File(0, FALSE, <<>>),
    File(5000, TRUE, <<200>>),
    File(51200, FALSE, <<>>),
    File(51200, TRUE, <<>>),
    File(51200, TRUE, <<0, 0, 0>>),
    File(51200, TRUE, <<0, 0, 0, 200>>),
    File(51200, TRUE, <<100>>),
    File(51200, TRUE, <<0, 200>>) }

Min(a, b) == IF a < b THEN a ELSE b

\* verify_pdf_content: the verdict (the reason string is not modelled).
verify_pdf_content(f) ==
  IF f.size < MIN_PDF_SIZE THEN FALSE
  ELSE IF ~f.parses THEN FALSE
  ELSE IF Len(f.pages) = 0 THEN FALSE
  ELSE \E i \in 1..Min(MaxPagesChecked, Len(f.pages)) : f.pages[i] > MinPageText

\* verify_content ignores the declared type and checks the file as a PDF.
verify_content(f) == verify_pdf_content(f)

\* ---- the validator functions called directly ------------------------------
\* The file at filepath as the validator finds it: whether it exists, its size
\* in bytes, its length in characters, whether PyPDF2 can parse it, and the
\* length of the text extracted from each page.
Path(exists, size, chars, parses, pages) ==
  [exists |-> exists, size |-> size, chars |-> chars, parses |-> parses,
   pages |-> pages]

NoPath == Path(FALSE, 0, 0, FALSE, <<>>)

PATHS ==
  { NoPath,
    Path(TRUE, 0, 0, FALSE, <<>>),
    Path(TRUE, 50, 50, FALSE, <<>>),
    Path(TRUE, 200, 200, FALSE, <<>>),
    Path(TRUE, 999, 999, FALSE, <<>>),
    Path(TRUE, 1000, 1000, FALSE, <<>>),
    Path(TRUE, 5000, 5000, TRUE, <<200>>),
    Path(TRUE, 10239, 300, TRUE, <<200>>),
    Path(TRUE, 10240, 300, TRUE, <<200>>),
    Path(TRUE, 51200, 51200, FALSE, <<>>),
    Path(TRUE, 51200, 0, TRUE, <<>>),
    Path(TRUE, 51200, 0, TRUE, <<0, 0, 0>>),
    Path(TRUE, 51200, 200, TRUE, <<0, 0, 0, 200>>),
    Path(TRUE, 51200, 99, TRUE, <<99>>),
    Path(TRUE, 51200, 100, TRUE, <<100>>),
    Path(TRUE, 51200, 101, TRUE, <<101>>),
    Path(TRUE, 51200, 200, TRUE, <<200>>),
    Path(TRUE, 51200, 200, TRUE, <<0, 200>>) }

\* A return value (is_valid, reason); pages is the page count the reason names,
\* 0 when it names none.  raised: the call ended with an exception instead.
Verdict(valid, reason, pages) ==
  [raised |-> FALSE, valid |-> valid, reason |-> reason, pages |-> pages]

VerdictRaised ==
  [raised |-> TRUE, valid |-> FALSE, reason |-> "AttributeError", pages |-> 0]

\* verify_pdf_content(filepath, verification_logger), lines 193-234.  Every
\* path to a return statement calls verification_logger.info first; with no
\* logger that call raises AttributeError, the handler of line 232 calls
\* verification_logger.info again, and the second exception leaves the function.
verify_pdf_content_call(path, logger) ==
  IF ~logger THEN VerdictRaised
  ELSE IF ~path.exists THEN Verdict(FALSE, "Error verifying", 0)
  ELSE IF path.size < MIN_PDF_SIZE THEN Verdict(FALSE, "File too small", 0)
  ELSE IF ~path.parses THEN Verdict(FALSE, "Error reading PDF", 0)
  ELSE IF Len(path.pages) = 0 THEN Verdict(FALSE, "PDF has no pages", 0)
  ELSE IF \E i \in 1..Min(MaxPagesChecked, Len(path.pages)) :
            path.pages[i] > MinPageText
  THEN Verdict(TRUE, "Valid PDF with pages", Len(path.pages))
  ELSE Verdict(FALSE, "No text content found in first few pages", 0)

\* verify_content(filepath, file_type, verification_logger), lines 305-307.
verify_content_call(path, file_type, logger) ==
  verify_pdf_content_call(path, logger)

FILE_TYPES == {"pdf", "sci_pdf", "html", "xml", "doc", "txt", "unknown"}

\* A response: the declared Content-Type header and the first bytes of the body.
Response(header, body) == [header |-> header, body |-> body]

NoResponse == Response("none", "none")

RESPONSES ==
  { Response(h, b) :
      h \in {"application/pdf", "text/html", "text/plain", "none"},
      b \in {"%PDF", "<html>", "<?xml", "other"} }

\* detect_content_type(response), lines 188-191.
detect_content_type(response) == "pdf"

\* ---- the mirror client's view of one endpoint ----------------------------
\* What one Sci-Hub endpoint answers: the status of the priming GET and of the
\* form POST, and for each extraction strategy of download_from_scihub what
\* the result page and the document request yield:
\*   "none"    the page holds no URL for this strategy
\*   "non200"  a URL is found, the document request returns a non-200 status
\*   "invalid" a document is downloaded and verify_content rejects it
\*   "valid"   a document is downloaded and verify_content accepts it
StrategyResults == {"none", "non200", "invalid", "valid"}

Endpoint(get, post, iframe, link, embed, script, raises) ==
  [get |-> get, post |-> post, iframe |-> iframe, link |-> link,
   embed |-> embed, script |-> script, raises |-> raises]

ENDPOINTS ==
  { Endpoint(g, p, i, l, e, s, r) :
      g \in {200, 503}, p \in {200, 503}, i \in StrategyResults,
      l \in StrategyResults, e \in StrategyResults, s \in StrategyResults,
      r \in BOOLEAN }

\* One iteration of the loop over SCIHUB_DOMAINS in download_from_scihub:
\* TRUE when the function returns True on this endpoint, FALSE when the loop
\* goes on to the next endpoint (continue, fall-through or caught exception).
TryDomain(ep) ==
  IF ep.raises THEN FALSE
  ELSE IF ep.get /= 200 THEN FALSE
  ELSE IF ep.post /= 200 THEN FALSE
  ELSE IF ep.iframe = "non200" THEN FALSE
  ELSE IF ep.iframe = "valid" THEN TRUE
  ELSE IF ep.link = "non200" THEN FALSE
  ELSE IF ep.link = "valid" THEN TRUE
  ELSE IF ep.embed = "non200" THEN FALSE
  ELSE IF ep.embed = "valid" THEN TRUE
  ELSE ep.script = "valid"

\* The results an endpoint can give to one iteration of the loop.
DomainResults == { TryDomain(ep) : ep \in ENDPOINTS }

\* Mutant of STRATEGIES: the inline script is searched first.
STRATEGIES_script_first == << "script", "iframe", "link", "embed" >>

\* The extraction strategies in the order of the code: the iframe (lines
\* 372-409), the anchors (412-453), the embed tag of div#article (456-494),
\* the script tags (497-530).
STRATEGIES == << "iframe", "link", "embed", "script" >>

\* Mutant of NextStrategy: a rejected document ends the endpoint.
NextStrategy_gives_up(result) == result = "none"

\* Mutant of NextStrategy: a non-200 document response is passed over like a
\* rejected document.
NextStrategy_after_non200(result) == result \in {"none", "invalid", "non200"}

\* Does the code go on to the next strategy after this one?  It does when the
\* page holds no URL for the strategy and when the downloaded document is
\* rejected (the else branches of lines 407, 451, 492, 528); a non-200 document
\* response is a `continue` of the loop over the endpoints, an accepted
\* document a return.
NextStrategy(result) == result \in {"none", "invalid"}

\* The strategies whose URL is downloaded on one result page, in order, from
\* strategy number n on.
RECURSIVE FetchedFrom(_, _)
FetchedFrom(ep, n) ==
  IF n > Len(STRATEGIES) THEN <<>>
  ELSE LET result == ep[STRATEGIES[n]]
       IN (IF result = "none" THEN <<>> ELSE << STRATEGIES[n] >>)
          \o (IF NextStrategy(result) THEN FetchedFrom(ep, n + 1) ELSE <<>>)

\* The documents requested from one endpoint (lines 338-530): none when the
\* priming GET or the form POST fails.
Fetched(ep) ==
  IF ep.raises \/ ep.get /= 200 \/ ep.post /= 200 THEN <<>>
  ELSE FetchedFrom(ep, 1)

\* Does the function return True on this endpoint?  The last document
\* requested is the only one that can have been accepted.
Accepted(ep) ==
  /\ Fetched(ep) /= <<>>
  /\ ep[Fetched(ep)[Len(Fetched(ep))]] = "valid"

\* The endpoints of a direct call: every combination of strategy results on
\* a result page, and the three ways of not getting a result page.
MirrorEndpoints ==
  { ep \in ENDPOINTS : ~ep.raises /\ ep.get = 200 /\ ep.post = 200 }
  \cup { Endpoint(503, 200, "none", "none", "none", "none", FALSE),
         Endpoint(200, 503, "none", "none", "none", "none", FALSE),
         Endpoint(200, 200, "none", "none", "none", "none", TRUE) }

\* Lines 497-530, the loop over the script tags of one result page.  Each
\* tag is "none" (no document URL in its text), "non200", "invalid" or
\* "valid" like a strategy.  What the whole loop yields: "valid" when a tag's
\* document is accepted (the function returns there); otherwise the loop runs
\* to its end.
ScriptResult(tags) ==
  LET results == { tags[n] : n \in 1..Len(tags) }
  IN IF "valid" \in results THEN "valid"
     ELSE IF "invalid" \in results THEN "invalid"
     ELSE IF "non200" \in results THEN "non200"
     ELSE "none"

\* The script tags whose document is requested, from tag number n on: a tag
\* without a URL is passed over, a non-200 response is a `continue` of the
\* loop over the tags (line 510), a rejected document falls through to the
\* next tag (line 528), an accepted one returns (line 525).
RECURSIVE ScriptFetchedFrom(_, _)
ScriptFetchedFrom(tags, n) ==
  IF n > Len(tags) THEN <<>>
  ELSE IF tags[n] = "none" THEN ScriptFetchedFrom(tags, n + 1)
  ELSE IF tags[n] = "valid" THEN << n >>
  ELSE << n >> \o ScriptFetchedFrom(tags, n + 1)

\* The script tags requested on one endpoint: none unless the script
\* strategy is reached.
ScriptFetched(ep, tags) ==
  IF \E n \in 1..Len(Fetched(ep)) : Fetched(ep)[n] = "script"
  THEN ScriptFetchedFrom(tags, 1)
  ELSE <<>>

\* A call of download_from_scihub(doi, ...) with SCIHUB_DOMAINS = domains;
\* tags: for each endpoint the script tags of its result page, one tag
\* unless the call says otherwise.
ScihubCall(doi, domains) ==
  [doi |-> doi, domains |-> domains,
   tags |-> [k \in 1..Len(domains) |-> << domains[k].script >>]]

NoScihubCall == ScihubCall(None, <<>>)

\* pc: "none", "call", "loop", "done"; k: the endpoint the loop is at;
\* contacted: the endpoints contacted so far; fetched: the documents
\* requested so far, as pairs of endpoint and strategy; tags: the script
\* tags whose document was requested, as pairs of endpoint and tag number.
NoScihubReturn ==
  [pc |-> "none", k |-> 0, success |-> FALSE, contacted |-> <<>>, fetched |-> <<>>,
   tags |-> <<>>]

\* ---- state -----------------------------------------------------------------
CounterNames ==
  { "start_time", "total_urls", "attempted_downloads", "successful_downloads",
    "failed_downloads", "skipped_downloads", "scihub_attempts",
    "scihub_successes", "scihub_failures", "file_types_pdf",
    "valid_content", "invalid_content" }

\* stats as the module sets it at import time (start_time None is 0 here).
DefaultStats == [c \in CounterNames |-> 0]

NoFile == [kind |-> "missing", ids |-> {}]

NoStatsFile == [exists |-> FALSE, stats |-> DefaultStats]

\* scihub_attempted_urls holds whole input lines (added on the mirror-first
\* path) and DOIs (added on the fallback paths); the two kinds of key are kept
\* apart here, an input line never being equal to a DOI.
NoAttempts == [lines |-> {}, dois |-> {}]

\* States of the ledger file that are not a JSON array of strings:
\*   "unreadable" open() raises IOError       "badjson" JSONDecodeError
\*   "number"     valid JSON, set(5) raises TypeError
\*   "nested"     an array of arrays, set([[..]]) raises TypeError
BadLedgerKinds == {"unreadable", "badjson", "number", "nested"}

Ledger(kind, ids) == [kind |-> kind, ids |-> ids]

\* The lines a ledger file holds for load_state.
LedgerIds(file) == IF file.kind = "array" THEN file.ids ELSE {}

VARIABLES
  url_list_exists, \* os.path.exists(args.url_list_file)
  urls,            \* the input list, one Line per non-empty line
  SCIHUB_DOMAINS,  \* number of configured mirror endpoints
  stateFile,       \* STATE_FILE on disk
  statsFile,       \* STATS_FILE on disk: whether it exists, and the saved stats
  max_concurrent,  \* args.max_concurrent
  downloaded_urls, failed_urls, scihub_attempted_urls, stats,
  mainpc,          \* position of main()
  queue,           \* work items of the executor not yet taken by a thread
  wk,              \* per worker thread: position and locals of download_file
  run,             \* number of the process run
  exitKind,        \* how the process ended
  doneAtExit,      \* ghost: downloaded_urls when the process ended
  loaded,          \* ghost: what load_state put into downloaded_urls
  outcome,         \* ghost: terminal outcome per submitted item
  requests,        \* ghost: per item, the network requests issued this run
  trail,           \* ghost: per item, what the validator and the mirror said
  scihubCalls,     \* ghost: per DOI, invocations of download_from_scihub
  failedLog,       \* FAILED_DOWNLOADS_LOG entries of this run
  incEvents,       \* ghost: per counter, completed += 1 since the pool started
  poolStats,       \* ghost: stats when the pool started
  vcall,           \* a direct call of a validator function: its arguments
  vret,            \* what that call returned
  index_file,      \* /app/index/publications_index.json on disk
  disable_scihub,  \* args.disable_scihub
  index_loaded,    \* download_file.index_loaded (FALSE: attribute not set)
  publication_index, \* download_file.publication_index
  fname,           \* ghost: per item, the file name chosen for its document
  sleeps,          \* ghost: per item, the rate-limit delays it waited
  scall,           \* a direct call of download_from_scihub: its arguments
  sret,            \* the progress and the result of that call
  pbar,            \* the count of the tqdm progress bar of main
  yielded,         \* the items whose future as_completed has yielded
  prevFailed,      \* ghost: the lines that ended Failed in the previous run
  durable          \* ghost: the lines the last completed flush left in the ledger

vars ==
  << url_list_exists, urls, SCIHUB_DOMAINS, stateFile, statsFile,
     max_concurrent, downloaded_urls, failed_urls, scihub_attempted_urls, stats, mainpc, queue,
     wk, run, exitKind, doneAtExit, loaded, outcome, requests, trail, scihubCalls,
     failedLog, incEvents, poolStats, vcall, vret, index_file, disable_scihub,
     index_loaded, publication_index, fname, sleeps, scall, sret, pbar,
     yielded, prevFailed, durable >>

validatorCall == << vcall, vret >>
mirrorCall == << scall, sret >>
options == << index_file, disable_scihub >>
lazyIndex == << index_loaded, publication_index >>
itemGhosts == << fname, sleeps >>
progress == << pbar, yielded >>
config == << url_list_exists, urls, SCIHUB_DOMAINS, max_concurrent, run >>
disk == << stateFile, statsFile >>
mainState == << mainpc, exitKind, doneAtExit, loaded, poolStats >>

\* A direct call of a validator function and its arguments.
ValidatorCall(fn, path, file_type, logger, response) ==
  [fn |-> fn, path |-> path, file_type |-> file_type, logger |-> logger,
   response |-> response]

NoCall == ValidatorCall("none", NoPath, "none", FALSE, NoResponse)

NoReturn == [done |-> FALSE, verdict |-> Verdict(FALSE, "none", 0), type |-> "none"]

NoValidatorCall == vcall = NoCall /\ vret = NoReturn

\* ---- the publication index ----------------------------------------------
\* One entry of publications_index.json: the key (publication id) and the
\* fields download_file reads.
IndexEntry(pub_id, url, doi, first_author, year) ==
  [pub_id |-> pub_id, url |-> url, doi |-> doi, first_author |-> first_author,
   year |-> year]

NoIndex == [exists |-> FALSE, entries |-> {}]

\* An index that lists the URL of the bare line LineList[1] and the
\* publication of the record LineList[4].
INDEX ==
  [exists |-> TRUE,
   entries |-> { IndexEntry("x1", <<"h1", ".pdf">>, "d2", "b", "1998"),
                 IndexEntry("p3", <<"h3", ".pdf">>, "d1", "a", "1999") }]

\* datetime.now().strftime('%Y')
NOW == "2026"

\* Lines 597-600 and 684-687: the year of the first index entry with this DOI
\* or this publication id, the current year when there is none.  (The index
\* used here holds at most one such entry, so the order of the dictionary
\* plays no role.)
YearOf(index, doi, pub_id) ==
  LET hits == { e \in index : e.doi = doi \/ e.pub_id = pub_id }
  IN IF hits = {} THEN NOW ELSE (CHOOSE e \in hits : TRUE).year

\* Lines 724-725: the index entries that list this URL.
ByUrl(index, url) == { e \in index : e.url = url }

\* Lines 664-665 and 727-729: the DOI the regular path works with.  A record
\* of five fields keeps its DOI field; any other line takes the DOI of the
\* index entry that lists its URL (the publication id when that entry has no
\* DOI), and keeps what the parse gave when the index does not list the URL.
\* (A DOI token stands for a DOI of three characters or more; line 728 treats
\* a shorter one like an empty one.)
RegularDoi(meta, url, doi, index) ==
  IF Len(meta) >= 5 THEN meta[2]
  ELSE IF ByUrl(index, url) /= {}
  THEN LET e == CHOOSE x \in ByUrl(index, url) : TRUE
       IN IF e.doi = "" THEN e.pub_id ELSE e.doi
  ELSE doi

\* Lines 664-842: filename_base on the regular path, as the triple
\* year, author, short id.  (The tokens used here are long enough for the
\* test of line 840 never to replace the name.)
RegularName(meta, url, index) ==
  IF Len(meta) >= 5 THEN << YearOf(index, meta[2], meta[1]), meta[3], meta[2] >>
  ELSE IF ByUrl(index, url) /= {}
  THEN LET e == CHOOSE x \in ByUrl(index, url) : TRUE
       IN << e.year, e.first_author, IF e.doi = "" THEN e.pub_id ELSE e.doi >>
  ELSE << NOW, "unknown", url >>

\* Lines 577-637: the file name on the mirror-first path.
MirrorFirstName(meta, doi, index) ==
  IF Len(meta) >= 3 THEN << YearOf(index, meta[2], meta[1]), meta[3], meta[2] >>
  ELSE << "scihub", "", doi >>

\* Does this step of download_file run the lazy load of lines 584-594 /
\* 671-681 / 710-720?
LoadsIndex(pc, meta) == pc = "primary" \/ (pc = "mf_add" /\ Len(meta) >= 3)

NoMirrorCall == scall = NoScihubCall /\ sret = NoScihubReturn

DefaultOptions == index_file = NoIndex /\ disable_scihub = FALSE

Items == 1..Len(urls)

IdleWorker ==
  [ pc |-> "idle", item |-> 0, doi |-> None, key |-> None, success |-> FALSE,
    mret |-> "none", incName |-> "none", incRet |-> "none", tmp |-> 0,
    k |-> 0, fpdef |-> FALSE, resp |-> "none" ]

NoRequests == [primary |-> 0, curl |-> 0, mirror |-> 0]

\* source: the fetch whose document was accepted ("primary", "curl", "mirror")
\* rejected: verify_content rejected the primary download
\* fallback: the branch that called the mirror client
\* curl: what the curl fetch left ("empty", "invalid", "valid")
NoTrail ==
  [source |-> "none", rejected |-> FALSE, fallback |-> "none", curl |-> "none"]

\* No file name chosen yet.
NoName == <<>>

\* The delays an item waited: args.delay (line 659) and the mirror's
\* rate_limit_delay (line 321).
NoSleeps == [delay |-> 0, scihub_delay |-> 0]

\* Input lists of at most MaxItems lines.
RECURSIVE SeqsUpTo(_, _)
SeqsUpTo(S, n) ==
  IF n = 0 THEN {<<>>}
  ELSE LET shorter == SeqsUpTo(S, n - 1)
       IN shorter \cup { Append(q, x) : q \in {p \in shorter : Len(p) = n - 1}, x \in S }

\* The pool runs the lines of a list concurrently, so a list and its
\* permutations behave alike up to the numbering of the items: one list per
\* multiset of lines, the one in the order of LineList.
OrderedInputs ==
  LET picks == { q \in SeqsUpTo(1..Len(LineList), MaxItems) :
                   \A j \in 1..(Len(q) - 1) : q[j] <= q[j + 1] }
  IN { [j \in 1..Len(q) |-> LineList[q[j]]] : q \in picks }

\* The memory of a freshly started process (module-level globals).
FreshMemory ==
  /\ downloaded_urls = {}
  /\ failed_urls = {}
  /\ scihub_attempted_urls = NoAttempts
  /\ stats = DefaultStats
  /\ mainpc = "start"
  /\ queue = <<>>
  /\ wk = [w \in Workers |-> IdleWorker]
  /\ exitKind = "running"
  /\ doneAtExit = {}
  /\ loaded = {}
  /\ outcome = [i \in Items |-> "Pending"]
  /\ requests = [i \in Items |-> NoRequests]
  /\ trail = [i \in Items |-> NoTrail]
  /\ scihubCalls = [d \in DOIS |-> 0]
  /\ failedLog = {}
  /\ incEvents = [c \in CounterNames |-> 0]
  /\ poolStats = DefaultStats
  /\ index_loaded = FALSE
  /\ publication_index = {}
  /\ fname = [i \in Items |-> NoName]
  /\ sleeps = [i \in Items |-> NoSleeps]
  /\ pbar = 0
  /\ yielded = {}
  /\ prevFailed = {}
  /\ durable = {}

Init ==
  /\ \/ url_list_exists = TRUE /\ urls \in OrderedInputs
     \/ url_list_exists = FALSE /\ urls = <<>>
  /\ SCIHUB_DOMAINS \in 0..MaxDomains
  /\ max_concurrent = MaxWorkers
  /\ stateFile = NoFile
  /\ statsFile = NoStatsFile
  /\ run = 1
  /\ FreshMemory
  /\ NoValidatorCall
  /\ NoMirrorCall
  /\ DefaultOptions

\* ---- download_file, one worker thread ----------------------------------
Step(w, rec) == wk' = [wk EXCEPT ![w] = rec]

\* stats[name] += 1 is a read of the counter followed by a write of the
\* incremented value; no lock is held between the two.  The read is taken in
\* the step that reaches the statement (the statements before it touch other
\* variables only), the write is the step IncWrite.
CallInc(rec, name, ret) ==
  [rec EXCEPT !.pc = "inc_write", !.incName = name, !.incRet = ret,
              !.tmp = stats[name]]

CurLine(w) == urls[wk[w].item]

\* Is this thread waiting in the mirror client (the rate-limit delay of line
\* 321 before the first endpoint, the backoff of lines 341 and 356 before the
\* next one)?
InMirrorDelay(w) == wk[w].pc = "sh_loop"

\* Mutant of sleep_suspends: a sleeping thread holds up every thread.
sleep_suspends_all(sleeper, thread) == TRUE

\* time.sleep (lines 321, 341, 356, 659) suspends the calling thread only.
sleep_suspends(sleeper, thread) == sleeper = thread

\* The lazy load of the index takes two steps when the file exists
\* (BeginLoadIndex, ReadIndex); a thread that finds the attribute
\* index_loaded, or no index file, goes on in one step.
IndexReady(w) ==
  ~LoadsIndex(wk[w].pc, CurLine(w).meta) \/ index_loaded \/ ~index_file.exists

\* Lines 584-594, 671-681, 710-720 when there is no index file to read.
LoadIndex(w) ==
  IF LoadsIndex(wk[w].pc, CurLine(w).meta)
  THEN /\ index_loaded' = TRUE
       /\ publication_index' = IF index_loaded THEN publication_index ELSE {}
  ELSE UNCHANGED lazyIndex

\* Mutant of MayTryMirror: the ledger of attempted DOIs is not consulted.
MayTryMirrorUnchecked(doi, attempted) == Truthy(doi)

\* `doi and doi not in scihub_attempted_urls` (lines 951, 1026, 1048, 1076)
MayTryMirror(doi, attempted) == Truthy(doi) /\ doi \notin attempted.dois

Finish(w, result) ==
  /\ outcome' = [outcome EXCEPT ![wk[w].item] = result]
  /\ Step(w, IdleWorker)

\* Mutant of ThreadAvailable: the executor starts a thread per work item.
ThreadAlwaysAvailable(w, max_workers) == TRUE

\* ThreadPoolExecutor(max_workers=args.max_concurrent), line 1228: the executor
\* runs at most max_workers threads.
ThreadAvailable(w, max_workers) == w <= max_workers

\* The threads of the executor are interchangeable: the idle thread with the
\* lowest number is the one that takes the next work item.
LowestIdle(w) == \A v \in 1..(w - 1) : wk[v].pc /= "idle"

\* A thread of the executor takes the next queued work item and runs
\* download_file up to its route (lines 545-573): the line is parsed, an item
\* already downloaded is skipped, six or more fields make the unpacking of
\* line 566 raise (the future then holds the exception).
Start(w) ==
  /\ mainpc = "pool"
  /\ ThreadAvailable(w, max_concurrent)
  /\ wk[w].pc = "idle"
  /\ LowestIdle(w)
  /\ queue /= <<>>
  /\ queue' = Tail(queue)
  /\ LET line == urls[Head(queue)]
         doi == ParseDoi(line.meta)
         rec == [IdleWorker EXCEPT !.item = Head(queue)]
     IN IF line \in downloaded_urls
        THEN /\ Step(w, CallInc(rec, "skipped_downloads", "ret_skip"))
             /\ UNCHANGED outcome
        ELSE IF UnpackRaises(line.meta)
        THEN /\ outcome' = [outcome EXCEPT ![Head(queue)] = "Raised"]
             /\ UNCHANGED wk
        ELSE /\ Step(w, [rec EXCEPT
                     !.doi = doi,
                     !.pc = IF MirrorFirst(doi, line.url) THEN "mf_add" ELSE "primary"])
             /\ UNCHANGED outcome
  /\ UNCHANGED << validatorCall, mirrorCall, options, progress, prevFailed, durable,
                  lazyIndex, itemGhosts,
                  config, disk, mainState, downloaded_urls, failed_urls,
                  scihub_attempted_urls, stats, requests, trail, scihubCalls,
                  failedLog, incEvents >>

IncWrite(w) ==
  /\ wk[w].pc = "inc_write"
  /\ stats' = [stats EXCEPT ![wk[w].incName] = wk[w].tmp + 1]
  /\ incEvents' = [incEvents EXCEPT ![wk[w].incName] = @ + 1]
  /\ CASE wk[w].incRet = "ret_true" -> Finish(w, "Succeeded")
       [] wk[w].incRet = "ret_skip" -> Finish(w, "Skipped")
       [] OTHER -> /\ Step(w, [wk[w] EXCEPT !.pc = wk[w].incRet, !.incName = "none",
                                            !.incRet = "none", !.tmp = 0])
                   /\ UNCHANGED outcome
  /\ UNCHANGED << validatorCall, mirrorCall, options, progress, prevFailed, durable,
                  lazyIndex, itemGhosts,
                  config, disk, mainState, queue, downloaded_urls, failed_urls,
                  scihub_attempted_urls, requests, trail, scihubCalls, failedLog >>

\* download_from_scihub, lines 313-321, up to the read of the counter; the
\* thread then waits rate_limit_delay (line 321) before the first endpoint.
ScihubEntry(w, rec) ==
  IF ~Truthy(rec.doi)
  THEN /\ Step(w, [rec EXCEPT !.pc = "sh_ret", !.success = FALSE])
       /\ UNCHANGED << requests, trail, scihubCalls, sleeps >>
  ELSE /\ Step(w, CallInc([rec EXCEPT !.k = 1], "scihub_attempts", "sh_loop"))
       /\ requests' = [requests EXCEPT ![rec.item].mirror = @ + 1]
       /\ sleeps' = [sleeps EXCEPT ![rec.item].scihub_delay = @ + 1]
       /\ trail' = [trail EXCEPT ![rec.item].fallback = rec.mret]
       /\ scihubCalls' = [scihubCalls EXCEPT ![rec.doi] = @ + 1]

\* Lines 576-641: the mirror-first path chooses the file name, records the
\* whole input line, unchecked, and calls the mirror client.
MirrorFirstAdd(w) ==
  /\ wk[w].pc = "mf_add"
  /\ IndexReady(w)
  /\ LoadIndex(w)
  /\ fname' = [fname EXCEPT ![wk[w].item] =
                 MirrorFirstName(CurLine(w).meta, wk[w].doi, publication_index')]
  /\ scihub_attempted_urls' =
       [scihub_attempted_urls EXCEPT !.lines = @ \cup {CurLine(w)}]
  /\ ScihubEntry(w, [wk[w] EXCEPT !.mret = "mirror_first"])
  /\ UNCHANGED << validatorCall, mirrorCall, options, progress, prevFailed, durable,
                  config, disk, mainState, queue, downloaded_urls, failed_urls,
                  stats, outcome, failedLog, incEvents >>

\* Lines 951, 1026, 1048, 1076: the test before a fallback to the mirror.
\* On the curl path a refused test falls through to the test of line 1048.
FallbackCheck(w) ==
  /\ wk[w].pc \in {"inv_check", "curl_check", "rf_check", "gen_check"}
  /\ IF MayTryMirror(wk[w].doi, scihub_attempted_urls)
     THEN Step(w, [wk[w] EXCEPT !.pc = "fb_add", !.mret = wk[w].pc])
     ELSE IF wk[w].pc = "curl_check"
     THEN Step(w, [wk[w] EXCEPT !.pc = "rf_check"])
     ELSE Step(w, CallInc(wk[w], "failed_downloads", "fail_add"))
  /\ UNCHANGED << validatorCall, mirrorCall, options, progress, prevFailed, durable,
                  lazyIndex, itemGhosts,
                  config, disk, mainState, queue, downloaded_urls, failed_urls,
                  scihub_attempted_urls, stats, outcome, requests, trail, scihubCalls,
                  failedLog, incEvents >>

\* Lines 959-960, 1034-1035, 1056-1057, 1084-1085:
\* scihub_attempted_urls.add(doi), then the call of the mirror client.
FallbackAdd(w) ==
  /\ wk[w].pc = "fb_add"
  /\ scihub_attempted_urls' =
       [scihub_attempted_urls EXCEPT !.dois = @ \cup {wk[w].doi}]
  /\ ScihubEntry(w, wk[w])
  /\ UNCHANGED << validatorCall, mirrorCall, options, progress, prevFailed, durable, lazyIndex, fname,
                  config, disk, mainState, queue, downloaded_urls, failed_urls,
                  stats, outcome, failedLog, incEvents >>

\* download_from_scihub, lines 333-539: one endpoint per step.
ScihubLoop(w) ==
  /\ wk[w].pc = "sh_loop"
  /\ IF wk[w].k > SCIHUB_DOMAINS
     THEN /\ Step(w, CallInc([wk[w] EXCEPT !.success = FALSE, !.k = 0],
                             "scihub_failures", "sh_ret"))
          /\ UNCHANGED trail
     ELSE \E found \in DomainResults :
            IF found
            THEN /\ Step(w, CallInc([wk[w] EXCEPT !.success = TRUE, !.k = 0],
                                    "scihub_successes", "sh_ret"))
                 /\ trail' = [trail EXCEPT ![wk[w].item].source = "mirror"]
            ELSE /\ Step(w, [wk[w] EXCEPT !.k = @ + 1])
                 /\ UNCHANGED trail
  /\ UNCHANGED << validatorCall, mirrorCall, options, progress, prevFailed, durable,
                  lazyIndex, itemGhosts,
                  config, disk, mainState, queue, downloaded_urls, failed_urls,
                  scihub_attempted_urls, stats, outcome, requests, scihubCalls,
                  failedLog, incEvents >>

\* Mutant of add: the set is replaced by the new element.
add_overwrites(done, id) == {id}

\* downloaded_urls.add(original_url) (lines 644, 943, 963, 1019, 1038, 1060, 1088):
\* one call of a built-in method, which the interpreter runs as one step.
add(done, id) == done \cup {id}

\* Mutant of MirrorSucceeded: the mirror's result is not looked at.
MirrorSucceededAlways(rec) == TRUE

\* `if success:` at lines 643, 962, 1037, 1059, 1087.
MirrorSucceeded(rec) == rec.success

\* The caller's handling of the mirror's result (lines 643-655, 962-974,
\* 1037-1041, 1059-1072, 1087-1100).
ScihubReturn(w) ==
  /\ wk[w].pc = "sh_ret"
  /\ IF MirrorSucceeded(wk[w])
     THEN /\ downloaded_urls' = add(downloaded_urls, CurLine(w))
          /\ Step(w, CallInc(wk[w], "successful_downloads", "ret_true"))
     ELSE /\ UNCHANGED downloaded_urls
          /\ IF wk[w].mret = "curl_check"
             THEN Step(w, [wk[w] EXCEPT !.pc = "rf_check"])
             ELSE Step(w, CallInc(wk[w], "failed_downloads", "fail_add"))
  /\ UNCHANGED << validatorCall, mirrorCall, options, progress, prevFailed, durable,
                  lazyIndex, itemGhosts,
                  config, disk, mainState, queue, failed_urls,
                  scihub_attempted_urls, stats, outcome, requests, trail, scihubCalls,
                  failedLog, incEvents >>

\* What the primary GET of lines 884-917 yields: a RequestException before any
\* byte is read ("reqfail"), or a response whose body is f, the stream breaking
\* with a RequestException when broken.
Classify(f, broken) ==
  IF broken THEN "broken"
  ELSE IF f.size = 0 THEN "empty"
  ELSE IF verify_content(f) THEN "valid"
  ELSE "invalid"

ResponseClasses == { Classify(f, broken) : f \in FILES, broken \in BOOLEAN }

\* What curl leaves in the temporary file (lines 992-1000): nothing usable
\* (curl fails or the file is empty), or a file verify_content judges.
CurlClasses == { Classify(f, FALSE) : f \in FILES }

\* Lines 657-891: the rate-limit delay, the file name, the primary request.
Primary(w) ==
  /\ wk[w].pc = "primary"
  /\ \A u \in Workers : InMirrorDelay(u) => ~sleep_suspends(u, w)
  /\ IndexReady(w)
  /\ LoadIndex(w)
  /\ sleeps' = [sleeps EXCEPT ![wk[w].item].delay = @ + 1]
  /\ fname' = [fname EXCEPT ![wk[w].item] =
                 RegularName(CurLine(w).meta, CurLine(w).url, publication_index')]
  /\ requests' = [requests EXCEPT ![wk[w].item].primary = @ + 1]
  /\ LET rec == [wk[w] EXCEPT !.doi = RegularDoi(CurLine(w).meta, CurLine(w).url,
                                                 wk[w].doi, publication_index')]
     IN \/ Step(w, [rec EXCEPT !.pc = "req_exc", !.fpdef = FALSE])
        \/ \E class \in ResponseClasses :
             Step(w, CallInc([rec EXCEPT !.resp = class],
                             "file_types_pdf", "downloaded"))
  /\ UNCHANGED << validatorCall, mirrorCall, options, progress, prevFailed, durable,
                  config, disk, mainState, queue, downloaded_urls, failed_urls,
                  scihub_attempted_urls, stats, outcome, trail, scihubCalls,
                  failedLog, incEvents >>

\* Lines 893-949: filepath is bound, the body is streamed to the temporary
\* file, verified and renamed.
Downloaded(w) ==
  /\ wk[w].pc = "downloaded"
  /\ LET rec == [wk[w] EXCEPT !.fpdef = TRUE, !.resp = "none"]
     IN CASE wk[w].resp = "broken" ->
               /\ Step(w, [rec EXCEPT !.pc = "req_exc"])
               /\ UNCHANGED trail
          [] wk[w].resp = "empty" ->
               /\ Step(w, [rec EXCEPT !.pc = "gen_check"])
               /\ UNCHANGED trail
          [] wk[w].resp = "valid" ->
               /\ Step(w, CallInc(rec, "valid_content", "pri_valid"))
               /\ trail' = [trail EXCEPT ![wk[w].item].source = "primary"]
          [] wk[w].resp = "invalid" ->
               /\ Step(w, CallInc(rec, "invalid_content", "inv_check"))
               /\ trail' = [trail EXCEPT ![wk[w].item].rejected = TRUE]
  /\ UNCHANGED << validatorCall, mirrorCall, options, progress, prevFailed, durable,
                  lazyIndex, itemGhosts,
                  config, disk, mainState, queue, downloaded_urls, failed_urls,
                  scihub_attempted_urls, stats, outcome, requests, scihubCalls,
                  failedLog, incEvents >>

\* Lines 943-944 and 1019-1020: accepted content of the primary or curl fetch.
PrimaryValid(w) ==
  /\ wk[w].pc = "pri_valid"
  /\ downloaded_urls' = add(downloaded_urls, CurLine(w))
  /\ Step(w, CallInc(wk[w], "successful_downloads", "ret_true"))
  /\ UNCHANGED << validatorCall, mirrorCall, options, progress, prevFailed, durable,
                  lazyIndex, itemGhosts,
                  config, disk, mainState, queue, failed_urls,
                  scihub_attempted_urls, stats, outcome, requests, trail, scihubCalls,
                  failedLog, incEvents >>

\* Lines 976-1045: the RequestException handler and its curl fallback.  The
\* rename of line 1003 raises when filepath was never bound (the request failed
\* before line 903); the inner handler swallows that.
RequestFailed(w) ==
  /\ wk[w].pc = "req_exc"
  /\ IF HasRenderMarker(CurLine(w).url)
     THEN /\ requests' = [requests EXCEPT ![wk[w].item].curl = @ + 1]
          /\ \E class \in CurlClasses :
               IF class = "empty" \/ ~wk[w].fpdef
               THEN /\ Step(w, [wk[w] EXCEPT !.pc = "rf_check"])
                    /\ trail' = [trail EXCEPT ![wk[w].item].curl = class]
               ELSE IF class = "valid"
               THEN /\ Step(w, CallInc(wk[w], "valid_content", "pri_valid"))
                    /\ trail' = [trail EXCEPT ![wk[w].item].source = "curl",
                                              ![wk[w].item].curl = class]
               ELSE /\ Step(w, [wk[w] EXCEPT !.pc = "curl_check"])
                    /\ trail' = [trail EXCEPT ![wk[w].item].curl = class]
     ELSE /\ Step(w, [wk[w] EXCEPT !.pc = "rf_check"])
          /\ UNCHANGED << requests, trail >>
  /\ UNCHANGED << validatorCall, mirrorCall, options, progress, prevFailed, durable,
                  lazyIndex, itemGhosts,
                  config, disk, mainState, queue, downloaded_urls, failed_urls,
                  scihub_attempted_urls, stats, outcome, scihubCalls,
                  failedLog, incEvents >>

\* Lines 652-655, 971-974, 1069-1072, 1097-1100: the failure log entry and the
\* failed set; the function returns False.
FailAdd(w) ==
  /\ wk[w].pc = "fail_add"
  /\ failedLog' = failedLog \cup {CurLine(w)}
  /\ failed_urls' = failed_urls \cup {CurLine(w)}
  /\ Finish(w, "Failed")
  /\ UNCHANGED << validatorCall, mirrorCall, options, progress, prevFailed, durable,
                  lazyIndex, itemGhosts,
                  config, disk, mainState, queue, downloaded_urls,
                  scihub_attempted_urls, stats, requests, trail, scihubCalls,
                  incEvents >>

Worker(w) ==
  \/ Start(w) \/ IncWrite(w) \/ MirrorFirstAdd(w)
  \/ FallbackCheck(w) \/ FallbackAdd(w) \/ ScihubLoop(w)
  \/ ScihubReturn(w) \/ Primary(w) \/ Downloaded(w) \/ PrimaryValid(w)
  \/ RequestFailed(w) \/ FailAdd(w)

\* ---- main ------------------------------------------------------------------
workerState ==
  << queue, wk, failed_urls, scihub_attempted_urls, outcome, requests, trail,
     scihubCalls, failedLog, incEvents >>

\* load_stats: the saved dictionary replaces the module's stats.
load_stats(file, current) == IF file.exists THEN file.stats ELSE current

\* Lines 1195-1196: start_time is set, then the saved statistics are loaded.
MainLoadStats ==
  /\ mainpc = "start"
  /\ stats' = load_stats(statsFile, [stats EXCEPT !["start_time"] = run])
  /\ mainpc' = "load_state"
  /\ UNCHANGED << validatorCall, mirrorCall, options, progress, prevFailed, durable,
                  lazyIndex, itemGhosts,
                  config, disk, workerState, downloaded_urls, exitKind, doneAtExit,
                  loaded, poolStats >>

\* load_state: does reading the ledger raise past its except clause?
LoadRaises(file) == file.kind \in {"number", "nested"}

\* Mutant of load_state: the stored array is read and dropped.
load_state_forgets(file, current) ==
  CASE file.kind = "missing" -> current
    [] OTHER -> {}

\* load_state: the set it leaves in downloaded_urls.
load_state(file, current) ==
  CASE file.kind = "missing" -> current
    [] file.kind = "array" -> file.ids
    [] OTHER -> {}

\* Line 1199.  An exception leaving load_state ends main; the interpreter
\* then runs the atexit handlers.
MainLoadState ==
  /\ mainpc = "load_state"
  /\ IF LoadRaises(stateFile)
     THEN /\ mainpc' = "atexit"
          /\ exitKind' = "exception"
          /\ UNCHANGED << downloaded_urls, loaded >>
     ELSE /\ downloaded_urls' = load_state(stateFile, downloaded_urls)
          /\ loaded' = load_state(stateFile, downloaded_urls)
          /\ mainpc' = "read_input"
          /\ UNCHANGED exitKind
  /\ UNCHANGED << validatorCall, mirrorCall, options, progress, prevFailed, durable,
                  lazyIndex, itemGhosts,
                  config, disk, workerState, stats, poolStats, doneAtExit >>

\* Line 1213: the indices of the input lines not yet downloaded, in order.
urls_to_download(list, done) ==
  SelectSeq([i \in 1..Len(list) |-> i], LAMBDA i : list[i] \notin done)

\* Lines 1201-1240: a missing input file ends main with a plain return;
\* otherwise the pending lines are counted and submitted to the executor.
MainSubmit ==
  /\ mainpc = "read_input"
  /\ IF ~url_list_exists
     THEN /\ mainpc' = "atexit"
          /\ exitKind' = "no_input"
          /\ UNCHANGED << stats, queue, poolStats >>
     ELSE LET todo == urls_to_download(urls, downloaded_urls)
              counted == [stats EXCEPT
                            !["total_urls"] = Len(urls),
                            !["skipped_downloads"] = Len(urls) - Len(todo),
                            !["attempted_downloads"] = Len(todo)]
          IN /\ stats' = counted
             /\ poolStats' = counted
             /\ queue' = todo
             /\ mainpc' = IF todo = <<>> THEN "summary" ELSE "pool"
             /\ UNCHANGED exitKind
  /\ UNCHANGED << validatorCall, mirrorCall, options, progress, prevFailed, durable,
                  lazyIndex, itemGhosts,
                  config, disk, wk, downloaded_urls, failed_urls,
                  scihub_attempted_urls, loaded, outcome, requests, trail,
                  scihubCalls, failedLog, incEvents, doneAtExit >>

PoolDrained == queue = <<>> /\ \A w \in Workers : wk[w].pc = "idle"

\* The items whose future is done: download_file returned or raised.
Completed == { i \in Items : outcome[i] /= "Pending" }

\* The lines of which an item ended Failed and none ended Succeeded.
OnlyFailed ==
  { urls[i] : i \in { j \in Items : outcome[j] = "Failed" } }
  \ { urls[i] : i \in { j \in Items : outcome[j] = "Succeeded" } }

\* Lines 1243-1251: as_completed yields every future that is done and not yet
\* yielded, pbar.update(1) runs for each in the finally clause, and the
\* executor is left.
MainPoolDone ==
  /\ mainpc = "pool"
  /\ PoolDrained
  /\ pbar' = pbar + Cardinality(Completed \ yielded)
  /\ yielded' = yielded \cup Completed
  /\ mainpc' = "summary"
  /\ UNCHANGED << validatorCall, mirrorCall, options, prevFailed, durable, lazyIndex,
                  itemGhosts,
                  config, disk, workerState, downloaded_urls, stats, exitKind,
                  doneAtExit, loaded, poolStats >>

\* A KeyboardInterrupt reaches main while it waits for the futures: leaving
\* the `with` block joins the executor's threads, which first run every queued
\* item; the exception then ends main, without the summary.
MainInterrupted ==
  /\ mainpc = "pool"
  /\ PoolDrained
  /\ mainpc' = "atexit"
  /\ exitKind' = "interrupt"
  /\ UNCHANGED << validatorCall, mirrorCall, options, progress, prevFailed, durable,
                  lazyIndex, itemGhosts,
                  config, disk, workerState, downloaded_urls, stats, loaded,
                  poolStats, doneAtExit >>

\* Line 1254: print_summary, then main returns.
MainSummary ==
  /\ mainpc = "summary"
  /\ mainpc' = "atexit"
  /\ exitKind' = "normal"
  /\ UNCHANGED << validatorCall, mirrorCall, options, progress, prevFailed, durable,
                  lazyIndex, itemGhosts,
                  config, disk, workerState, downloaded_urls, stats, loaded,
                  poolStats, doneAtExit >>

\* Mutant of save_state: the failed lines are written to the ledger too.
save_state_with_failed(file, done) ==
  IF done \cup failed_urls /= {} THEN Ledger("array", done \cup failed_urls) ELSE file

\* save_state: the file after the call.
save_state(file, done) == IF done /= {} THEN Ledger("array", done) ELSE file

\* save_stats: the file after the call.
save_stats(current) == [exists |-> TRUE, stats |-> current]

\* Lines 183-186: the handlers registered with atexit run when the
\* interpreter exits.
AtExit ==
  /\ mainpc = "atexit"
  /\ stateFile' = save_state(stateFile, downloaded_urls)
  /\ statsFile' = save_stats(stats)
  /\ durable' = LedgerIds(save_state(stateFile, downloaded_urls))
  /\ doneAtExit' = downloaded_urls
  /\ mainpc' = "exited"
  /\ UNCHANGED << validatorCall, mirrorCall, options, progress, prevFailed,
                  lazyIndex, itemGhosts,
                  config, workerState, downloaded_urls, stats, exitKind, loaded,
                  poolStats >>

\* The memory of a process that was killed: nothing of it is left.
Killed ==
  /\ downloaded_urls' = {}
  /\ failed_urls' = {}
  /\ scihub_attempted_urls' = NoAttempts
  /\ stats' = DefaultStats
  /\ queue' = <<>>
  /\ wk' = [w \in Workers |-> IdleWorker]
  /\ loaded' = {}
  /\ outcome' = [i \in Items |-> "Pending"]
  /\ requests' = [i \in Items |-> NoRequests]
  /\ trail' = [i \in Items |-> NoTrail]
  /\ scihubCalls' = [d \in DOIS |-> 0]
  /\ failedLog' = {}
  /\ incEvents' = [c \in CounterNames |-> 0]
  /\ poolStats' = DefaultStats
  /\ index_loaded' = FALSE
  /\ publication_index' = {}
  /\ fname' = [i \in Items |-> NoName]
  /\ sleeps' = [i \in Items |-> NoSleeps]
  /\ pbar' = 0
  /\ yielded' = {}

\* kill_downloads.kill_process sends SIGTERM; download_pdfs installs no handler
\* for it, so the process ends at once and no atexit handler runs.
Sigterm ==
  /\ mainpc \notin {"exited"}
  /\ mainpc' = "exited"
  /\ exitKind' = "sigterm"
  /\ doneAtExit' = downloaded_urls
  /\ Killed
  /\ UNCHANGED << validatorCall, mirrorCall, options, prevFailed, durable, config, disk >>

\* main up to the exit of the interpreter.
MainRun ==
  \/ MainLoadStats \/ MainLoadState \/ MainSubmit \/ MainPoolDone
  \/ MainInterrupted \/ MainSummary

Main == MainRun \/ AtExit

Next == Main \/ Sigterm \/ \E w \in Workers : Worker(w)

Spec == Init /\ [][Next]_vars

\* ---- several runs of the process, one worker thread ------------------------
\* The lines of the lists that are run several times: a bare .pdf URL, a
\* record routed to the mirror, a .pdf record with a DOI.
RunLines == { LineList[n] : n \in {1, 2, 4} }

InitRuns ==
  /\ \/ url_list_exists = TRUE /\ urls \in SeqsUpTo(RunLines, MaxItems)
     \/ url_list_exists = FALSE /\ urls = <<>>
  /\ SCIHUB_DOMAINS \in 0..MaxDomains
  /\ max_concurrent = 1
  /\ stateFile = NoFile
  /\ statsFile = NoStatsFile
  /\ run = 1
  /\ FreshMemory
  /\ NoValidatorCall
  /\ NoMirrorCall
  /\ DefaultOptions

\* The process is started again over the same input; the files stay.
Restart ==
  /\ mainpc = "exited"
  /\ run < MaxRuns
  /\ run' = run + 1
  /\ mainpc' = "start"
  /\ exitKind' = "running"
  /\ doneAtExit' = {}
  /\ Killed
  /\ prevFailed' = OnlyFailed
  /\ UNCHANGED << validatorCall, mirrorCall, options, durable, url_list_exists, urls,
                  SCIHUB_DOMAINS, max_concurrent, disk >>

\* Between two runs the ledger file is damaged or replaced.
DamageLedger ==
  /\ mainpc = "exited"
  /\ run < MaxRuns
  /\ stateFile.kind \in {"missing", "array"}
  /\ \E k \in BadLedgerKinds : stateFile' = Ledger(k, {})
  /\ UNCHANGED << validatorCall, mirrorCall, options, progress, prevFailed, durable,
                  lazyIndex, itemGhosts,
                  config, statsFile, mainState, workerState, downloaded_urls,
                  stats >>

NextRuns == Next \/ Restart \/ DamageLedger

SpecRuns == InitRuns /\ [][NextRuns]_vars

\* ---- several runs, the write of the ledger in two steps ---------------------
\* The atexit handlers run in reverse order of registration: save_stats
\* (lines 148-171), then save_state.  Lines 126-130: with a non-empty set,
\* open(STATE_FILE, 'w') truncates the ledger before anything is written.
OpenStateFile ==
  /\ mainpc = "atexit"
  /\ downloaded_urls /= {}
  /\ statsFile' = save_stats(stats)
  /\ stateFile' = Ledger("badjson", {})
  /\ mainpc' = "saving"
  /\ UNCHANGED << validatorCall, mirrorCall, options, progress, prevFailed, durable,
                  lazyIndex, itemGhosts,
                  config, workerState, downloaded_urls, stats, exitKind, loaded,
                  poolStats, doneAtExit >>

\* Lines 131-132: json.dump writes the array and the file is closed; with an
\* empty set save_state does nothing (line 126).  The interpreter has exited.
DumpState ==
  /\ \/ mainpc = "saving"
     \/ mainpc = "atexit" /\ downloaded_urls = {}
  /\ stateFile' = IF mainpc = "saving" THEN Ledger("array", downloaded_urls)
                  ELSE stateFile
  /\ statsFile' = save_stats(stats)
  /\ durable' = IF mainpc = "saving" THEN downloaded_urls ELSE LedgerIds(stateFile)
  /\ doneAtExit' = downloaded_urls
  /\ mainpc' = "exited"
  /\ UNCHANGED << validatorCall, mirrorCall, options, progress, prevFailed,
                  lazyIndex, itemGhosts,
                  config, workerState, downloaded_urls, stats, exitKind, loaded,
                  poolStats >>

NextFlush ==
  \/ MainRun \/ OpenStateFile \/ DumpState \/ Sigterm \/ Restart
  \/ \E w \in Workers : Worker(w)

SpecFlush == InitRuns /\ [][NextFlush]_vars

\* ---- one run to its end, under fair scheduling -----------------------------
\* Input lists: a bare line twice, a record routed to the mirror next to a
\* line of six metadata fields, and a .pdf record.
LiveInputs ==
  { << LineList[1], LineList[1] >>,
    << LineList[2], LineList[8] >>,
    << LineList[4] >> }

InitLive ==
  /\ url_list_exists = TRUE
  /\ urls \in LiveInputs
  /\ SCIHUB_DOMAINS = MaxDomains
  /\ max_concurrent = MaxWorkers
  /\ stateFile = NoFile
  /\ statsFile = NoStatsFile
  /\ run = 1
  /\ FreshMemory
  /\ NoValidatorCall
  /\ NoMirrorCall
  /\ DefaultOptions

\* Lines 1244-1251: as_completed yields one future that is done, in the
\* order of completion; future.result() returns or re-raises, the exception
\* is logged, and the finally clause advances the progress bar by one.
MainProgress ==
  /\ mainpc = "pool"
  /\ \E i \in Completed \ yielded :
       /\ yielded' = yielded \cup {i}
       /\ pbar' = pbar + 1
  /\ UNCHANGED << validatorCall, mirrorCall, options, prevFailed, durable,
                  lazyIndex, itemGhosts,
                  config, disk, mainState, workerState, downloaded_urls, stats >>

\* main without a signal from outside.
MainLive ==
  \/ MainLoadStats \/ MainLoadState \/ MainSubmit \/ MainProgress
  \/ MainPoolDone \/ MainSummary \/ AtExit

NextLive == MainLive \/ \E w \in Workers : Worker(w)

\* The main thread and every thread of the pool keep running: a request
\* returns or times out, a sleep ends.
SpecLive ==
  /\ InitLive
  /\ [][NextLive]_vars
  /\ WF_vars(MainLive)
  /\ \A w \in Workers : WF_vars(Worker(w))



\* ---- the end-to-end scenario ------------------------------------------------
\* Ten distinct pending lines: seven bare .pdf URLs, two records with a DOI and
\* a .pdf URL, one bare URL without a DOI.
ScenarioList ==
  << Line(<<>>, <<"s1", ".pdf">>),
     Line(<<>>, <<"s2", ".pdf">>),
     Line(<<>>, <<"s3", ".pdf">>),
     Line(<<>>, <<"s4", ".pdf">>),
     Line(<<>>, <<"s5", ".pdf">>),
     Line(<<>>, <<"s6", ".pdf">>),
     Line(<<>>, <<"s7", ".pdf">>),
     Line(<<"q8", "d1", "a", "t", "pdf">>, <<"s8", ".pdf">>),
     Line(<<"q9", "d2", "a", "t", "pdf">>, <<"s9", ".pdf">>),
     Line(<<>>, <<"s10">>) >>

\* What the host of each line answers to the primary request in the scenario:
\* a document verify_content accepts, one it rejects, or no response at all.
ScenarioResponse(n) ==
  IF n <= 7 THEN "valid" ELSE IF n <= 9 THEN "invalid" ELSE "reqfail"

\* The servers behave as the scenario says: each primary request is answered
\* by ScenarioResponse, and the first mirror endpoint serves a valid document.
ScenarioEnv ==
  \A w \in Workers :
    wk[w].item /= 0 =>
      /\ wk[w].resp /= "none" => wk[w].resp = ScenarioResponse(wk[w].item)
      /\ wk[w].pc = "req_exc" => ScenarioResponse(wk[w].item) = "reqfail"
      /\ wk[w].k <= 1

InitScenario ==
  /\ url_list_exists = TRUE
  /\ urls = ScenarioList
  /\ SCIHUB_DOMAINS = 1
  /\ max_concurrent = MaxWorkers
  /\ stateFile = NoFile
  /\ statsFile = NoStatsFile
  /\ run = 1
  /\ FreshMemory
  /\ NoValidatorCall
  /\ NoMirrorCall
  /\ DefaultOptions

NextScenario == Next /\ ScenarioEnv'

SpecScenario == InitScenario /\ [][NextScenario]_vars

\* ---- the validator functions, each called once on a drawn input ------------
progVars ==
  << config, disk, mainState, workerState, downloaded_urls, stats, options,
     lazyIndex, itemGhosts, mirrorCall, progress, prevFailed, durable >>

VALIDATOR_CALLS ==
  { ValidatorCall("verify_pdf_content", p, "none", l, NoResponse) :
      p \in PATHS, l \in BOOLEAN }
  \cup { ValidatorCall("verify_content", p, t, l, NoResponse) :
           p \in PATHS, t \in FILE_TYPES, l \in BOOLEAN }
  \cup { ValidatorCall("detect_content_type", NoPath, "none", FALSE, r) :
           r \in RESPONSES }

InitValidators ==
  /\ url_list_exists = FALSE
  /\ urls = <<>>
  /\ SCIHUB_DOMAINS = 0
  /\ max_concurrent = 1
  /\ stateFile = NoFile
  /\ statsFile = NoStatsFile
  /\ run = 1
  /\ FreshMemory
  /\ vcall \in VALIDATOR_CALLS
  /\ vret = NoReturn
  /\ NoMirrorCall
  /\ DefaultOptions

CallVerifyPdfContent ==
  /\ vcall.fn = "verify_pdf_content"
  /\ ~vret.done
  /\ vret' = [done |-> TRUE,
              verdict |-> verify_pdf_content_call(vcall.path, vcall.logger),
              type |-> "none"]
  /\ UNCHANGED << vcall, progVars >>

CallVerifyContent ==
  /\ vcall.fn = "verify_content"
  /\ ~vret.done
  /\ vret' = [done |-> TRUE,
              verdict |-> verify_content_call(vcall.path, vcall.file_type,
                                              vcall.logger),
              type |-> "none"]
  /\ UNCHANGED << vcall, progVars >>

CallDetectContentType ==
  /\ vcall.fn = "detect_content_type"
  /\ ~vret.done
  /\ vret' = [done |-> TRUE, verdict |-> NoReturn.verdict,
              type |-> detect_content_type(vcall.response)]
  /\ UNCHANGED << vcall, progVars >>

NextValidators ==
  CallVerifyPdfContent \/ CallVerifyContent \/ CallDetectContentType

SpecValidators == InitValidators /\ [][NextValidators]_vars

\* ---- runs with a publication index and the --disable-scihub option ---------
\* Input lists: three copies of the bare line, two of a record (the index
\* lists both), and a record routed to the mirror next to one that is not.
IndexInputs ==
  { << LineList[1], LineList[1], LineList[1] >>,
    << LineList[4], LineList[4] >>,
    << LineList[2], LineList[4] >> }

InitIndex ==
  /\ url_list_exists = TRUE
  /\ urls \in IndexInputs
  /\ SCIHUB_DOMAINS = MaxDomains
  /\ max_concurrent = MaxWorkers
  /\ stateFile = NoFile
  /\ statsFile = NoStatsFile
  /\ run = 1
  /\ FreshMemory
  /\ NoValidatorCall
  /\ NoMirrorCall
  /\ index_file \in {NoIndex, INDEX}
  /\ disable_scihub \in BOOLEAN

\* Lines 584-586 (671-673, 710-712): the first thread to find no attribute
\* index_loaded sets it and binds publication_index to an empty dictionary,
\* before it opens the index file.
BeginLoadIndex(w) ==
  /\ wk[w].pc \in {"primary", "mf_add"}
  /\ LoadsIndex(wk[w].pc, CurLine(w).meta)
  /\ ~index_loaded
  /\ index_file.exists
  /\ index_loaded' = TRUE
  /\ publication_index' = {}
  /\ Step(w, [wk[w] EXCEPT !.pc = IF wk[w].pc = "primary" THEN "pri_idx" ELSE "mf_idx"])
  /\ UNCHANGED << validatorCall, mirrorCall, options, progress, prevFailed, durable, itemGhosts,
                  config, disk, mainState, queue, downloaded_urls, failed_urls,
                  scihub_attempted_urls, stats, outcome, requests, trail,
                  scihubCalls, failedLog, incEvents >>

\* Lines 589-591 (676-678, 715-717): json.load, then the assignment of the
\* loaded dictionary.
ReadIndex(w) ==
  /\ wk[w].pc \in {"pri_idx", "mf_idx"}
  /\ publication_index' = index_file.entries
  /\ Step(w, [wk[w] EXCEPT !.pc = IF wk[w].pc = "pri_idx" THEN "primary" ELSE "mf_add"])
  /\ UNCHANGED << validatorCall, mirrorCall, options, progress, prevFailed, durable,
                  itemGhosts, index_loaded,
                  config, disk, mainState, queue, downloaded_urls, failed_urls,
                  scihub_attempted_urls, stats, outcome, requests, trail,
                  scihubCalls, failedLog, incEvents >>

NextIndex == Next \/ \E w \in Workers : BeginLoadIndex(w) \/ ReadIndex(w)

SpecIndex == InitIndex /\ [][NextIndex]_vars

\* ---- download_from_scihub, called once on a drawn list of endpoints ---------
\* The callers pass a DOI that is truthy (lines 573, 951, 1026, 1048, 1076).
MIRROR_CALLS ==
  { ScihubCall(d, doms) : d \in DOIS,
                          doms \in SeqsUpTo(MirrorEndpoints, MaxMirrorDomains) }

callerState ==
  << validatorCall, config, disk, mainState, workerState, downloaded_urls,
     options, lazyIndex, itemGhosts, progress, prevFailed, durable >>

InitMirror ==
  /\ url_list_exists = FALSE
  /\ urls = <<>>
  /\ SCIHUB_DOMAINS = 0
  /\ max_concurrent = 1
  /\ stateFile = NoFile
  /\ statsFile = NoStatsFile
  /\ run = 1
  /\ FreshMemory
  /\ NoValidatorCall
  /\ DefaultOptions
  /\ scall \in MIRROR_CALLS
  /\ sret = [NoScihubReturn EXCEPT !.pc = "call"]

\* Lines 313-331: the test of the DOI, the counter, the rate-limit delay.
MirrorEnter ==
  /\ sret.pc = "call"
  /\ IF ~Truthy(scall.doi)
     THEN /\ sret' = [sret EXCEPT !.pc = "done", !.success = FALSE]
          /\ UNCHANGED stats
     ELSE /\ sret' = [sret EXCEPT !.pc = "loop", !.k = 1]
          /\ stats' = [stats EXCEPT !["scihub_attempts"] = @ + 1]
  /\ UNCHANGED << scall, callerState >>

\* Lines 333-535: one iteration of the loop over the endpoints.
MirrorTryEndpoint ==
  /\ sret.pc = "loop"
  /\ sret.k <= Len(scall.domains)
  /\ LET ep == scall.domains[sret.k]
         docs == [n \in 1..Len(Fetched(ep)) |-> << sret.k, Fetched(ep)[n] >>]
         requested == ScriptFetched(ep, scall.tags[sret.k])
         tagdocs == [n \in 1..Len(requested) |-> << sret.k, requested[n] >>]
         seen == [sret EXCEPT !.contacted = Append(@, sret.k),
                              !.fetched = @ \o docs,
                              !.tags = @ \o tagdocs]
     IN IF Accepted(ep)
        THEN /\ sret' = [seen EXCEPT !.pc = "done", !.success = TRUE]
             /\ stats' = [stats EXCEPT !["scihub_successes"] = @ + 1]
        ELSE /\ sret' = [seen EXCEPT !.k = @ + 1]
             /\ UNCHANGED stats
  /\ UNCHANGED << scall, callerState >>

\* Lines 537-539: the loop has run out of endpoints.
MirrorGiveUp ==
  /\ sret.pc = "loop"
  /\ sret.k > Len(scall.domains)
  /\ sret' = [sret EXCEPT !.pc = "done", !.success = FALSE]
  /\ stats' = [stats EXCEPT !["scihub_failures"] = @ + 1]
  /\ UNCHANGED << scall, callerState >>

NextMirror == MirrorEnter \/ MirrorTryEndpoint \/ MirrorGiveUp

SpecMirror == InitMirror /\ [][NextMirror]_vars

\* ---- download_from_scihub on result pages with several script tags ---------
\* The script tags of a page that hold text.
TAGS ==
  { t \in SeqsUpTo(StrategyResults, MaxScriptTags) : Len(t) >= 1 }

\* Result pages: what the frame, the anchors and the embed tag yield, and the
\* script tags.
PAGES ==
  { [ep |-> Endpoint(200, 200, i, l, e, ScriptResult(t), FALSE), tags |-> t] :
      i \in {"none", "non200", "invalid"}, l \in {"none", "non200"},
      e \in {"none", "non200"}, t \in TAGS }

SCRIPT_CALLS ==
  { [doi |-> "d1",
     domains |-> [k \in 1..Len(pages) |-> pages[k].ep],
     tags |-> [k \in 1..Len(pages) |-> pages[k].tags]] :
      pages \in SeqsUpTo(PAGES, MaxMirrorDomains) }

InitScripts ==
  /\ url_list_exists = FALSE
  /\ urls = <<>>
  /\ SCIHUB_DOMAINS = 0
  /\ max_concurrent = 1
  /\ stateFile = NoFile
  /\ statsFile = NoStatsFile
  /\ run = 1
  /\ FreshMemory
  /\ NoValidatorCall
  /\ DefaultOptions
  /\ scall \in SCRIPT_CALLS
  /\ sret = [NoScihubReturn EXCEPT !.pc = "call"]

SpecScripts == InitScripts /\ [][NextMirror]_vars

\* ---- properties --------------------------------------------------------------

\* C1: idempotence across runs.  In a run that starts with the ledger a
\* previous run persisted, no primary request, no curl fetch and no mirror
\* request is issued for an input line the ledger holds.
IdempotentAcrossRuns ==
  (mainpc /= "exited" /\ stateFile.kind = "array") =>
    \A i \in Items : urls[i] \in stateFile.ids => requests[i] = NoRequests

\* A second run has drained its pool: one line was in the ledger, another
\* line was fetched again.
IdempotentAcrossRunsWitness ==
  /\ run = 2
  /\ mainpc = "atexit"
  /\ exitKind = "normal"
  /\ \E i, j \in Items :
       /\ urls[i] \in LedgerIds(stateFile)
       /\ requests[i] = NoRequests
       /\ requests[j].primary > 0

\* C2: within one run the mirror client is invoked at most once per DOI,
\* whatever path references the DOI.
AtMostOneMirrorAttemptPerDoi == \A d \in DOIS : scihubCalls[d] <= 1

\* No line of the input routes DOI d straight to the mirror (line 573), so
\* every mirror call for d comes from a fallback branch.
NoFallbackLine(d) ==
  \A i \in Items :
    ParseDoi(urls[i].meta) = d => ~MirrorFirst(d, urls[i].url)

\* C3: two workers that reach a fallback branch with the same DOI do not both
\* invoke the mirror client: for a DOI that no line routes straight to the
\* mirror, the test on scihub_attempted_urls and the insertion act as one step.
FallbackRaceFree ==
  \A d \in DOIS : NoFallbackLine(d) => scihubCalls[d] <= 1

\* C4: on every termination path the ledger file holds, once the process has
\* exited, every identity that was marked done in memory.
FlushOnEveryExit ==
  mainpc = "exited" => doneAtExit \subseteq LedgerIds(stateFile)

\* C5: an identity is in downloaded_urls only if load_state read it from the
\* ledger or an item with that line was accepted (the validator accepted the
\* primary or curl download, or the mirror client returned True) and has not
\* ended Failed, Skipped or with an exception.
OnlySuccessUpdatesLedger ==
  /\ \A id \in downloaded_urls \ loaded :
       \E i \in Items :
         /\ urls[i] = id
         /\ trail[i].source /= "none"
         /\ outcome[i] \in {"Pending", "Succeeded"}
  /\ \A i \in Items :
       outcome[i] = "Succeeded" =>
         trail[i].source /= "none" /\ urls[i] \in downloaded_urls

\* A run that loaded a line from the ledger has added a second line after the
\* item of that line Succeeded.
OnlySuccessUpdatesLedgerWitness ==
  /\ loaded /= {}
  /\ \E i \in Items :
       /\ outcome[i] = "Succeeded"
       /\ urls[i] \in downloaded_urls \ loaded

\* C6: every exception raised while an item is processed, the one raised by
\* the unpacking of the metadata fields included, ends the item Failed: the
\* identity is in the failed set and in the failure log.
PerItemErrorContainment ==
  \A i \in Items :
    (UnpackRaises(urls[i].meta) /\ outcome[i] /= "Pending") =>
      /\ outcome[i] = "Failed"
      /\ urls[i] \in failed_urls
      /\ urls[i] \in failedLog

\* C7: when the pool has drained, every counter equals its value at the start
\* of the pool plus the number of increments made.
NoLostStatisticsUpdates ==
  mainpc = "summary" =>
    \A c \in CounterNames : stats[c] = poolStats[c] + incEvents[c]

\* C8: whatever the ledger file holds, load_state returns without raising and
\* leaves the stored array, or the empty set, in downloaded_urls.
FailOpenLedgerLoad ==
  /\ exitKind /= "exception"
  /\ mainpc = "read_input" => downloaded_urls = LedgerIds(stateFile)

\* C9: resolver routing, stated on the text of the line.
HasDoiField(line) == Len(line.meta) >= 2 /\ line.meta[2] \in DOIS

EndsInPdfAnyCase(url) == Len(url) > 0 /\ url[Len(url)] \in {".pdf", ".PDF"}

NamesRenderOrPrintable(url) ==
  \E n \in 1..Len(url) : url[n] \in {"render", "Render", "printable"}

MirrorOnlyLine(line) ==
  /\ HasDoiField(line)
  /\ ~EndsInPdfAnyCase(line.url)
  /\ ~NamesRenderOrPrintable(line.url)

\* C9: a line with a DOI whose URL neither ends in .pdf nor names render or
\* printable is fetched from the mirror only, and ends Failed when the mirror
\* fails; for a line whose URL ends in .pdf the mirror is called only after
\* the primary request.
ResolverRouting ==
  \A i \in Items :
    /\ MirrorOnlyLine(urls[i]) =>
         /\ requests[i].primary = 0
         /\ requests[i].curl = 0
         /\ outcome[i] \in {"Succeeded", "Failed"} =>
              /\ requests[i].mirror = 1
              /\ outcome[i] = "Succeeded" <=> trail[i].source = "mirror"
    /\ EndsInPdfAnyCase(urls[i].url) =>
         /\ requests[i].mirror > 0 => requests[i].primary > 0
         /\ trail[i].fallback /= "mirror_first"

\* One item was routed to the mirror alone and ended Failed; another, with a
\* .pdf URL, called the mirror after its primary request.
ResolverRoutingWitness ==
  \E i, j \in Items :
    /\ MirrorOnlyLine(urls[i])
    /\ outcome[i] = "Failed"
    /\ requests[i] = [primary |-> 0, curl |-> 0, mirror |-> 1]
    /\ EndsInPdfAnyCase(urls[j].url)
    /\ requests[j].primary = 1
    /\ requests[j].mirror = 1

\* C10, the outcome: an item whose primary download the validator rejected ends
\* Succeeded exactly when the mirror was called for it and returned True, and
\* Failed without a mirror call when the test before the fallback refused.
RejectedOutcome ==
  \A i \in Items :
    (trail[i].rejected /\ outcome[i] /= "Pending") =>
      IF trail[i].fallback = "inv_check"
      THEN /\ requests[i].mirror = 1
           /\ outcome[i] \in {"Succeeded", "Failed"}
           /\ outcome[i] = "Succeeded" <=> trail[i].source = "mirror"
      ELSE /\ outcome[i] = "Failed"
           /\ requests[i].mirror = 0

\* C10, the transition: the item moves on to the mirror exactly when it has a
\* DOI that is not yet in scihub_attempted_urls.
RejectedTransition ==
  \A w \in Workers :
    (wk[w].pc = "inv_check" /\ wk'[w].pc /= "inv_check" /\ mainpc' /= "exited") =>
      LET d == ParseDoi(CurLine(w).meta)
      IN wk'[w].pc = "fb_add" <=>
           (d \in DOIS /\ d \notin scihub_attempted_urls.dois)

PrimaryInProgress(w) ==
  \/ wk[w].pc = "downloaded"
  \/ wk[w].pc = "inc_write" /\ wk[w].incRet = "downloaded"

\* The worker is inside download_from_scihub, past its entry test.
MirrorInProgress(w) ==
  \/ wk[w].pc = "sh_loop"
  \/ wk[w].pc = "inc_write" /\ wk[w].incRet = "sh_loop"

\* C11: per-identity ordering.  Under every interleaving of the workers, no
\* mirror fetch for an input line is in progress while a primary fetch for the
\* same line is in progress (so none starts before that fetch has finished).
PerIdentityOrdering ==
  \A w, v \in Workers :
    (PrimaryInProgress(w) /\ MirrorInProgress(v)) => CurLine(w) /= CurLine(v)

\* C13: the verdict of verify_pdf_content on a file that exists is "invalid"
\* when the file is smaller than 10240 bytes, cannot be parsed, has no page, or
\* none of its first min(3, page count) pages yields at least 100 characters;
\* otherwise "valid", the reason naming the page count.
PdfValidationPolicy ==
  (vret.done /\ vcall.fn = "verify_pdf_content" /\ vcall.logger
     /\ vcall.path.exists) =>
    LET f == vcall.path
        expected ==
          /\ f.size >= 10240
          /\ f.parses
          /\ Len(f.pages) > 0
          /\ \E n \in 1..Min(3, Len(f.pages)) : f.pages[n] >= 100
    IN /\ ~vret.verdict.raised
       /\ vret.verdict.valid = expected
       /\ vret.verdict.valid => vret.verdict.pages = Len(f.pages)

\* C14: detect_content_type returns one of pdf, html, xml, doc, txt, unknown;
\* pdf for a body that begins with %PDF and html for a body that begins with
\* <html>, whatever the Content-Type header declares.
ClassifierCorrectness ==
  (vret.done /\ vcall.fn = "detect_content_type") =>
    /\ vret.type \in {"pdf", "html", "xml", "doc", "txt", "unknown"}
    /\ vcall.response.body = "%PDF" => vret.type = "pdf"
    /\ vcall.response.body = "<html>" => vret.type = "html"

\* C15: verify_content applies the policy of the declared type: a file declared
\* unknown is valid exactly when it has at least 100 bytes, a file declared xml
\* or txt exactly when it has at least 1000 characters, whether or not it
\* parses as a PDF.
TypeSpecificValidation ==
  (vret.done /\ vcall.fn = "verify_content" /\ vcall.logger
     /\ vcall.path.exists) =>
    /\ vcall.file_type = "unknown" =>
         vret.verdict.valid = (vcall.path.size >= 100)
    /\ vcall.file_type \in {"xml", "txt"} =>
         vret.verdict.valid = (vcall.path.chars >= 1000)

\* C16: verify_pdf_content and verify_content never raise: for every file,
\* missing or unparseable ones included, and for every caller, one passing no
\* verification logger included, they return a pair (is_valid, reason).
ValidationNeverThrows ==
  (vret.done /\ vcall.fn \in {"verify_pdf_content", "verify_content"}) =>
    /\ ~vret.verdict.raised
    /\ (~vcall.path.exists \/ ~vcall.path.parses) => ~vret.verdict.valid

\* The exit status of the process (lines 1256-1257 call main and nothing else):
\* 0 when main returns, 1 after an unhandled exception, 130 after an unhandled
\* KeyboardInterrupt, 143 when SIGTERM ends the process.
ExitCode(kind) ==
  CASE kind \in {"normal", "no_input"} -> 0
    [] kind = "exception" -> 1
    [] kind = "interrupt" -> 130
    [] kind = "sigterm" -> 143

\* C17: the process exits with code 0 when the run completes normally, and
\* with a non-zero code, no item being fetched, when the input list file does
\* not exist.
ExitCodes ==
  (mainpc = "exited" /\ exitKind /= "sigterm") =>
    /\ exitKind = "normal" => ExitCode(exitKind) = 0
    /\ ~url_list_exists =>
         /\ ExitCode(exitKind) /= 0
         /\ \A i \in Items : requests[i] = NoRequests

\* C18: no duplicate downloads within a run.  Of the items that carry one and
\* the same input line, at most one obtains a document from the network.
NoDuplicateDownloads ==
  \A i, j \in Items :
    (i /= j /\ urls[i] = urls[j]) =>
      ~(trail[i].source /= "none" /\ trail[j].source /= "none")

\* C19: no update of downloaded_urls is lost.  Under every interleaving the set
\* holds the line of every item that Succeeded and of every item whose worker
\* is past the call of add.
SerializedMarkDone ==
  /\ \A i \in Items : outcome[i] = "Succeeded" => urls[i] \in downloaded_urls
  /\ \A w \in Workers :
       (wk[w].pc = "inc_write" /\ wk[w].incRet = "ret_true") =>
         CurLine(w) \in downloaded_urls

\* Two workers have just added different lines, neither has returned yet.
SerializedMarkDoneWitness ==
  \E w, v \in Workers :
    /\ wk[w].pc = "inc_write" /\ wk[w].incRet = "ret_true"
    /\ wk[v].pc = "inc_write" /\ wk[v].incRet = "ret_true"
    /\ CurLine(w) /= CurLine(v)
    /\ {CurLine(w), CurLine(v)} \subseteq downloaded_urls

\* C20, the bound: at most max_concurrent items are in progress.
InProgressBound ==
  Cardinality({ w \in Workers : wk[w].pc /= "idle" }) <= max_concurrent

\* C20, run to completion: a worker leaves its item only when the item has
\* reached a terminal state (or the process has been killed).
RunToCompletion ==
  \A w \in Workers :
    (wk[w].item /= 0 /\ wk'[w].item /= wk[w].item) =>
      \/ outcome'[wk[w].item] \in {"Succeeded", "Failed", "Skipped"}
      \/ mainpc' = "exited"

EndToEndScenario ==
  (urls = ScenarioList /\ mainpc = "summary") =>
    /\ \A i \in 1..7 :
         /\ outcome[i] = "Succeeded"
         /\ trail[i].source = "primary"
         /\ requests[i].mirror = 0
    /\ \A i \in 8..9 :
         outcome[i] = "Succeeded" /\ trail[i].source = "mirror"
    /\ outcome[10] = "Failed"
    /\ stats["successful_downloads"] = 9
    /\ stats["failed_downloads"] = 1
    /\ stats["scihub_attempts"] = 2

\* C21: independent delays.  While a worker waits in the mirror client (its
\* rate-limit delay or a backoff), every other worker that is about to make
\* its primary request can make it; an item for which the mirror client was
\* not called has waited no mirror delay, and an item routed straight to the
\* mirror has waited no primary delay.
IndependentDelays ==
  /\ \A u, v \in Workers :
       (InMirrorDelay(u) /\ wk[v].pc = "primary") => ENABLED Primary(v)
  /\ \A i \in Items :
       /\ requests[i].mirror = 0 => sleeps[i].scihub_delay = 0
       /\ trail[i].fallback = "mirror_first" => sleeps[i].delay = 0

\* One worker has begun the mirror delay for its item while another worker,
\* which has not waited yet, is about to make its primary request.
IndependentDelaysWitness ==
  \E u, v \in Workers :
    /\ InMirrorDelay(u)
    /\ sleeps[wk[u].item].scihub_delay = 1
    /\ wk[v].pc = "primary"
    /\ sleeps[wk[v].item].delay = 0

\* C25: the secondary fetch.  curl is run only for a URL that contains
\* 'printable' or 'render'; an item for which curl retrieved content that the
\* validator accepts ends Succeeded, is in downloaded_urls, and has had no
\* mirror attempt; after a curl fetch the mirror is tried only when curl
\* failed or its content was rejected, and the item has a DOI.
SecondaryFetchTransition ==
  \A i \in Items :
    /\ requests[i].curl > 0 => HasRenderMarker(urls[i].url)
    /\ (trail[i].curl = "valid" /\ outcome[i] /= "Pending") =>
         /\ outcome[i] = "Succeeded"
         /\ urls[i] \in downloaded_urls
    /\ (requests[i].curl > 0 /\ requests[i].mirror > 0) =>
         /\ trail[i].curl \in {"empty", "invalid"}
         /\ Truthy(ParseDoi(urls[i].meta))

\* C26: one mirror attempt per item.  Whatever branches an item passes
\* through, download_from_scihub is called for it at most once.
OneMirrorAttemptPerItem == \A i \in Items : requests[i].mirror <= 1

\* An item went through the curl fetch with rejected content, the mirror call
\* that follows it and, the mirror having failed, the test of the
\* request-failed branch, and ended Failed after one mirror call.
OneMirrorAttemptPerItemWitness ==
  \E i \in Items :
    /\ outcome[i] = "Failed"
    /\ trail[i].curl = "invalid"
    /\ trail[i].fallback = "curl_check"
    /\ requests[i].mirror = 1

\* The timeout argument of each kind of network request, in seconds; 0 stands
\* for a request made without one.  Primary GET: line 884.  Mirror priming GET
\* and form POST: lines 338, 353.  Mirror document GET: lines 385, 429, 470,
\* 506.  curl: lines 984-992 (no --max-time, subprocess.run without timeout).
REQUEST_TIMEOUT(kind) ==
  CASE kind = "primary" -> 30
    [] kind = "scihub_get" -> 10
    [] kind = "scihub_post" -> 10
    [] kind = "scihub_document" -> 0
    [] kind = "curl" -> 0

\* The kinds of request known to have been made for an item.
Issued(i) ==
  (IF requests[i].primary > 0 THEN {"primary"} ELSE {})
  \cup (IF requests[i].curl > 0 THEN {"curl"} ELSE {})
  \cup (IF trail[i].source = "mirror"
        THEN {"scihub_get", "scihub_post", "scihub_document"} ELSE {})

\* C29: bounded requests.  Every network request made for an item (primary
\* GET, curl, mirror priming GET, mirror form POST, mirror document download)
\* carries a bounded timeout.
BoundedRequests ==
  \A i \in Items : \A kind \in Issued(i) : REQUEST_TIMEOUT(kind) > 0

\* The primary request of the item was made and gave no document to judge
\* (the request raised, the stream broke, or the body was empty).
PrimaryFailed(i) ==
  /\ requests[i].primary > 0
  /\ trail[i].source /= "primary"
  /\ ~trail[i].rejected

\* C22: permanent resolution failure.  An item whose line carries no DOI (a
\* bare URL, or a record with an empty DOI field) never causes a call of the
\* mirror client; when its primary request has failed it ends Failed, is
\* counted as failed, is written to the failure log, and is not Succeeded.
PermanentResolutionFailure ==
  \A i \in Items :
    ~Truthy(ParseDoi(urls[i].meta)) =>
      /\ requests[i].mirror = 0
      /\ (PrimaryFailed(i) /\ trail[i].source /= "curl" /\ outcome[i] /= "Pending") =>
           /\ outcome[i] = "Failed"
           /\ urls[i] \in failedLog
           /\ incEvents["failed_downloads"] >= 1

\* C23: deterministic file names.  Two items with the same input line are
\* given the same file name, whatever the interleaving of the workers and the
\* moment the publication index is loaded.
DeterministicFileNames ==
  \A i, j \in Items :
    (urls[i] = urls[j] /\ fname[i] /= NoName /\ fname[j] /= NoName) =>
      fname[i] = fname[j]

\* C24: with --disable-scihub the mirror client is never called, neither on
\* the mirror-first route nor as a fallback.
DisableScihubHonoured ==
  disable_scihub => \A i \in Items : requests[i].mirror = 0

\* A step of worker w that belongs to the skip of an item: the step that
\* finds the line in downloaded_urls, or the write of the skipped counter.
SkipStep(w) ==
  \/ wk[w].pc = "idle" /\ wk'[w].incRet = "ret_skip"
  \/ wk[w].incRet = "ret_skip" /\ outcome'[wk[w].item] = "Skipped"

\* The skip of an item changes nothing but the skipped counter.
SkipFrame ==
  \A w \in Workers :
    SkipStep(w) =>
      /\ UNCHANGED << downloaded_urls, failed_urls, scihub_attempted_urls,
                      requests >>
      /\ stats'["successful_downloads"] = stats["successful_downloads"]
      /\ stats'["failed_downloads"] = stats["failed_downloads"]

\* No request was made for a skipped item, and when the pool has drained the
\* skipped counter is the number of lines left out by main (line 1214) plus
\* the number of items skipped by the workers.
SkipCounted ==
  /\ \A i \in Items : outcome[i] = "Skipped" => requests[i] = NoRequests
  /\ mainpc = "summary" =>
       stats["skipped_downloads"] =
         poolStats["skipped_downloads"]
           + Cardinality({ i \in Items : outcome[i] = "Skipped" })

\* C30: the skip transition.  An item whose line is in downloaded_urls when
\* its worker starts becomes Skipped without any request; downloaded_urls,
\* the failed set, the ledger of mirror attempts and the succeeded and failed
\* counters are left unchanged, and the skipped counter counts the item
\* exactly once.
SkipTransition == []SkipCounted /\ [][SkipFrame]_vars

\* The elements of a sequence.
RangeOf(seq) == { seq[n] : n \in 1..Len(seq) }

\* The position of a strategy in the order (a) frame source, (b) anchor,
\* (c) embed in the content container, (d) URL in an inline script.
Rank(strategy) ==
  CASE strategy = "iframe" -> 1
    [] strategy = "link" -> 2
    [] strategy = "embed" -> 3
    [] strategy = "script" -> 4

StrategyNames == {"iframe", "link", "embed", "script"}

\* What the strategy yields on endpoint number k of the call.
ResultAt(k, strategy) == scall.domains[k][strategy]

\* C27: mirror fall-through.  Within one call of the mirror client: when the
\* document of one strategy is rejected, the document of the next strategy
\* that finds a URL on the same endpoint is requested, and after the last
\* strategy the next endpoint is contacted; the call returns success at the
\* first accepted document and contacts no further endpoint; it returns
\* failure only after every configured endpoint has been contacted (at once
\* when none is configured).
MirrorFallThrough ==
  LET docs == RangeOf(sret.fetched)
      tried == RangeOf(sret.contacted)
      valid == { d \in docs : ResultAt(d[1], d[2]) = "valid" }
  IN /\ \A d \in docs : \A t \in StrategyNames :
          ( /\ ResultAt(d[1], d[2]) = "invalid"
            /\ Rank(t) > Rank(d[2])
            /\ ResultAt(d[1], t) /= "none"
            /\ \A u \in StrategyNames :
                 (Rank(d[2]) < Rank(u) /\ Rank(u) < Rank(t)) =>
                   ResultAt(d[1], u) = "none" )
          => << d[1], t >> \in docs
     /\ \A k \in tried :
          (sret.pc = "done" /\ k < Len(scall.domains)
             /\ \A d \in valid : d[1] /= k)
          => (k + 1) \in tried
     /\ valid /= {} => sret.pc = "done" /\ sret.success
     /\ (sret.pc = "done" /\ sret.success) =>
          /\ sret.fetched /= <<>>
          /\ valid = { sret.fetched[Len(sret.fetched)] }
          /\ tried = 1..(sret.fetched[Len(sret.fetched)][1])
     /\ (sret.pc = "done" /\ ~sret.success) => tried = 1..Len(scall.domains)

\* The call returned success on the second endpoint after two documents of
\* the first endpoint had been rejected.
MirrorFallThroughWitness ==
  /\ sret.pc = "done"
  /\ sret.success
  /\ sret.contacted = << 1, 2 >>
  /\ Len(sret.fetched) >= 3
  /\ sret.fetched[1][1] = 1
  /\ sret.fetched[2][1] = 1

\* C28: extraction priority.  On one endpoint the documents are requested in
\* the order frame source, anchor, embed, inline script, and the document of a
\* strategy is requested only if every earlier strategy found no URL or gave a
\* document that was rejected.
ExtractionPriority ==
  /\ \A d \in RangeOf(sret.fetched) : \A t \in StrategyNames :
       Rank(t) < Rank(d[2]) => ResultAt(d[1], t) \in {"none", "invalid"}
  /\ \A n, m \in 1..Len(sret.fetched) :
       (n < m /\ sret.fetched[n][1] = sret.fetched[m][1]) =>
         Rank(sret.fetched[n][2]) < Rank(sret.fetched[m][2])

\* The document named in an inline script was requested after the frame's
\* document had been rejected, the page holding no anchor to a document.
ExtractionPriorityWitness ==
  \E k \in RangeOf(sret.contacted) :
    /\ << k, "script" >> \in RangeOf(sret.fetched)
    /\ << k, "iframe" >> \in RangeOf(sret.fetched)
    /\ ResultAt(k, "link") = "none"

\* The items main submitted to the pool (line 1213): those whose line was not
\* in the ledger that load_state read.
Submitted == { i \in Items : urls[i] \notin loaded }

\* C31: exactly one terminal outcome per item.  When the pool has drained,
\* the succeeded, failed and skipped-by-worker counters add up to
\* attempted_downloads, and the line of every submitted item is in
\* downloaded_urls or in failed_urls.
ExactlyOneOutcome ==
  mainpc = "summary" =>
    /\ stats["successful_downloads"] + stats["failed_downloads"]
         + (stats["skipped_downloads"] - poolStats["skipped_downloads"])
       = stats["attempted_downloads"]
    /\ \A i \in Submitted : urls[i] \in downloaded_urls \cup failed_urls

\* The files download_file is known to have left at final output paths for
\* an item, as pairs of directory and verdict of the validator.  The primary
\* download is renamed to its final path in the pdf directory before is_valid
\* is tested (lines 925-928), and so is the file curl left (lines 1000-1003,
\* where the rename succeeds only when filepath was bound); nothing removes a
\* rejected file.  An accepted mirror document is at its path in sci_pdf.
OutputFiles(i) ==
  (IF trail[i].source \in {"primary", "curl"} THEN {<< "pdf", "valid" >>} ELSE {})
  \cup (IF trail[i].rejected \/ trail[i].fallback = "curl_check"
        THEN {<< "pdf", "invalid" >>} ELSE {})
  \cup (IF trail[i].source = "mirror" THEN {<< "sci_pdf", "valid" >>} ELSE {})

\* C32: only validated documents in the output.  At the end of a run every
\* file at a final path of an output directory is a document the validator
\* accepted, also when the item ended Failed.
OnlyValidatedOutput ==
  mainpc = "summary" =>
    \A i \in Items : \A file \in OutputFiles(i) : file[2] = "valid"

\* C33: done and failed are disjoint.  In every reachable state no line is
\* both in downloaded_urls and in failed_urls.
DoneFailedDisjoint == downloaded_urls \cap failed_urls = {}

\* Has the process ended by leaving main (the atexit handlers have run)?
ExitedOrderly == mainpc = "exited" /\ exitKind /= "sigterm"

\* Has the item been handed to a worker in this run?
Attempted(i) ==
  \/ outcome[i] /= "Pending"
  \/ \E w \in Workers : wk[w].pc /= "idle" /\ wk[w].item = i

\* C34: failed items are not remembered across runs.  A line whose items ended
\* Failed and that was not in the ledger is not in the ledger the run writes;
\* in the next run over the same input its items are submitted to the pool
\* again, and when the pool has drained they have been attempted again.
FailedNotRemembered ==
  /\ ExitedOrderly =>
       \A id \in OnlyFailed : id \notin loaded => id \notin LedgerIds(stateFile)
  /\ mainpc \in {"pool", "summary"} =>
       \A i \in Items :
         urls[i] \in prevFailed =>
           \/ \E n \in 1..Len(queue) : queue[n] = i
           \/ Attempted(i)
  /\ mainpc = "summary" =>
       \A i \in Items : urls[i] \in prevFailed => outcome[i] /= "Pending"

\* In the second run the bare line, which failed in the first run, has been
\* requested again and has failed again.
FailedNotRememberedWitness ==
  /\ run = 2
  /\ mainpc = "summary"
  /\ \E i \in Items :
       /\ urls[i] = LineList[1]
       /\ urls[i] \in prevFailed
       /\ requests[i].primary = 1
       /\ outcome[i] = "Failed"

\* C35: the statistics of a run start from zero.  When a run has ended
\* through its summary, the persisted counters successful_downloads,
\* failed_downloads and scihub_attempts are the numbers of items that
\* Succeeded and Failed and of mirror calls in this run, and start_time is
\* the start of this run.
StatisticsOfThisRun ==
  (ExitedOrderly /\ exitKind = "normal") =>
    /\ statsFile.exists
    /\ statsFile.stats["successful_downloads"]
         = Cardinality({ i \in Items : outcome[i] = "Succeeded" })
    /\ statsFile.stats["failed_downloads"]
         = Cardinality({ i \in Items : outcome[i] = "Failed" })
    /\ statsFile.stats["scihub_attempts"]
         = Cardinality({ i \in Items : requests[i].mirror = 1 })
    /\ statsFile.stats["start_time"] = run

\* Lines 868-871: the temporary file of the primary download, named by a
\* hash of the URL alone (the hash is taken as free of collisions).
temp_filepath(line) == << "temp", line.url >>

\* Lines 903 and 955, 1030, 1052, 1080, 641: the final path of an item's
\* document, the directory of its source and the chosen file name.
OutputPath(i) ==
  << IF trail[i].source = "mirror" THEN "sci_pdf" ELSE "pdf", fname[i] >>

\* C37: no overwrite between items.  Two items of different input lines that
\* both ended Succeeded are stored at different output paths, and two workers
\* whose primary downloads of different lines are in progress at the same
\* time write different temporary files.
NoOverwrite ==
  /\ \A i, j \in Items :
       (/\ urls[i] /= urls[j]
        /\ outcome[i] = "Succeeded"
        /\ outcome[j] = "Succeeded") => OutputPath(i) /= OutputPath(j)
  /\ \A w, u \in Workers :
       (/\ w /= u
        /\ PrimaryInProgress(w)
        /\ PrimaryInProgress(u)
        /\ CurLine(w) /= CurLine(u)) =>
         temp_filepath(CurLine(w)) /= temp_filepath(CurLine(u))

\* C36: crash-safe flush.  Whenever the process has ended, also when it was
\* killed while save_state rewrote the ledger, the ledger file is absent or a
\* complete array that holds every line the last completed flush had written;
\* and a run that has loaded the ledger holds all those lines.
CrashSafeFlush ==
  /\ mainpc = "exited" =>
       /\ stateFile.kind \in {"missing", "array"}
       /\ durable \subseteq LedgerIds(stateFile)
  /\ mainpc \in {"read_input", "pool", "summary", "atexit", "saving"} =>
       durable \subseteq downloaded_urls

\* C38: a non-success document response on the mirror.  When the document
\* request for the URL of the frame, anchor or embed strategy returns a
\* non-200 status, no document of a later strategy and no script tag of that
\* endpoint is requested and the loop has moved on to the next endpoint; when
\* the request for the URL of a script tag returns a non-200 status, the
\* document of the next script tag of the same page that holds a URL is
\* requested.
NonSuccessDocument ==
  LET docs == RangeOf(sret.fetched)
      tagdocs == RangeOf(sret.tags)
      tried == RangeOf(sret.contacted)
  IN /\ \A d \in docs :
          (d[2] /= "script" /\ ResultAt(d[1], d[2]) = "non200") =>
            /\ \A t \in StrategyNames : Rank(t) > Rank(d[2]) => << d[1], t >> \notin docs
            /\ \A td \in tagdocs : td[1] /= d[1]
            /\ sret.pc = "loop" => sret.k > d[1]
            /\ (sret.pc = "done" /\ d[1] < Len(scall.domains)) => (d[1] + 1) \in tried
            /\ (sret.pc = "done" /\ sret.success) => d[1] < Len(sret.contacted)
     /\ \A td \in tagdocs :
          LET page == scall.tags[td[1]]
          IN page[td[2]] = "non200" =>
               \A m \in (td[2] + 1)..Len(page) :
                 (/\ page[m] /= "none"
                  /\ \A n \in (td[2] + 1)..(m - 1) : page[n] = "none")
                 => << td[1], m >> \in tagdocs

\* On the first endpoint the anchor's document returned a non-200 status
\* while a script tag of the page held a URL, and the second endpoint was
\* contacted; there the first script tag's document returned a non-200 status
\* and the second tag's document was requested and accepted.
NonSuccessDocumentWitness ==
  /\ sret.pc = "done"
  /\ sret.success
  /\ sret.contacted = << 1, 2 >>
  /\ << 1, "link" >> \in RangeOf(sret.fetched)
  /\ ResultAt(1, "link") = "non200"
  /\ scall.tags[1][1] /= "none"
  /\ scall.tags[2] = << "non200", "valid" >>
  /\ sret.tags = << << 2, 1 >>, << 2, 2 >> >>

\* The run has ended through its summary: every submitted item has a terminal
\* outcome, the progress bar counts every submitted item, the pool is empty
\* and the atexit handlers have flushed the ledger and the statistics.
RunEnded ==
  /\ mainpc = "exited"
  /\ exitKind = "normal"
  /\ PoolDrained
  /\ \A i \in Submitted : outcome[i] \in {"Succeeded", "Failed", "Skipped"}
  /\ yielded = Submitted
  /\ pbar = stats["attempted_downloads"]
  /\ statsFile.exists
  /\ doneAtExit = downloaded_urls
  /\ LedgerIds(stateFile) = downloaded_urls

\* C39: run termination.  Under fair scheduling of the main thread and the
\* worker threads, every request returning or timing out, the progress bar is
\* advanced once for each future the main thread has been handed, and the run
\* eventually ends: every submitted item is Succeeded, Failed or Skipped, the
\* progress bar has counted each of them once, the pool has drained, the
\* summary was reached and the ledger and the statistics were flushed.
RunTermination ==
  /\ [](pbar = Cardinality(yielded) /\ yielded \subseteq Completed \cap Submitted)
  /\ <>RunEnded

====
